---- MODULE Spec2Model ----
(***************************************************************************)
(* Model of the show/repaint display subprocess of JES4py                  *)
(* (src/jes4py/show.py): the producer's end of the pipe, the listener      *)
(* thread of ShowApp, the Tk event loop with its handlers, and the         *)
(* process wrapper ShowProcess.                                            *)
(***************************************************************************)
EXTENDS Integers, Sequences, FiniteSets, TLC

\* ------------------------------------------------------------------ bounds
\* Number of messages the producer puts on the pipe in one run.
MaxSends == 2
\* Number of times the user clicks the window's close button in one run.
MaxCloses == 2
\* Largest number of frames of a sound, and of set operations applied to it.
MaxFrames == 2
MaxOps == 2
\* Width and height, in pixels, of the image the explorer shows.
ImageWidth == 4
ImageHeight == 3
\* Number of messages the pipe buffers towards the producer before a send on
\* the display process's end blocks.
PipeCapacity == 1

\* ------------------------------------------------------------- message set
\* Picture contents the producer can show (title, image and size go together).
Contents == {"red", "blue"}

\* A picture object as pickled onto the pipe; n is the send's position in the
\* producer's send order.
Picture(n, c) == [kind |-> "picture", n |-> n, content |-> c]
\* An object with none of the picture methods (no getTitle).
NoAttr(n) == [kind |-> "noattr", n |-> n, content |-> "none"]
\* An object that has getTitle but no getImage.
TitleOnly(n, c) == [kind |-> "titleonly", n |-> n, content |-> c]
\* ShowApp.NOTIFY_EXIT, bytes([0]), sent by ShowProcess.exit at send position n.
NOTIFY_EXIT(n) == [kind |-> "bytes0", n |-> n, content |-> "none"]
\* ShowApp.EXIT_CODE, the string 'exit', sent at position n.
EXIT_CODE(n) == [kind |-> "exit", n |-> n, content |-> "none"]

\* The picture methods showImage calls, and ImageTk.PhotoImage.
getTitle(p) == <<"title", p.content>>
getImage(p) == <<"pixels", p.content>>
getWidth(p) == <<"width", p.content>>
getHeight(p) == <<"height", p.content>>
PhotoImage(img) == <<"photo", img>>
\* What the window shows: its title, the canvas image and the canvas size.
Display(t, i, w, h) == [title |-> t, image |-> i, width |-> w, height |-> h]

\* The exceptions pipe.recv() can raise in the listener.
NoError == [type |-> "none", line |-> 0]
Raised(t, l) == [type |-> t, line |-> l]

VARIABLES
    toChild,        \* pipe, producer -> display process: messages in flight
    toParent,       \* pipe, display process -> producer: messages in flight
    producerEnd,    \* "open" | "closed": the producer's end of the pipe
    sent,           \* every message the producer has sent, in send order
    exitResult,     \* what ShowProcess.exit() returned: "notcalled" | "None"
    producerPic,    \* the producer's own picture object: its current content
    spawned,        \* whether the producer has spawned a fresh display subprocess
    listenerPc,     \* listener thread: idle (not started) | recv0 | test | gen | recv | post_exit | ending |
                    \* done | dead
    picture,        \* listener thread's local variable `picture`
    listenerError,  \* the exception the listener's last recv raised, with its line
    imageQueue,     \* self.imageQueue
    events,         \* Tk event queue of the root window
    procState,      \* "created" | "bound" | "starting" (ShowApp.__init__ before the
                    \* bindings, before the thread start, before mainloop) |
                    \* "running" (mainloop) | "sending" (mainloop thread blocked in
                    \* pipe.send) | "quit" (mainloop returned) | "terminated"
    title,          \* window title
    image,          \* self.image
    canvasSize,     \* canvas <<width, height>>
    imageID,        \* self.imageID (0 is None)
    nItems,         \* number of canvas items created so far
    rendered,       \* frames showImage has drawn, in drawing order
    displayed,      \* what the window showed after each of those drawings
    closes          \* number of WM_DELETE_WINDOW callbacks run

\* The display process of show2.py, which is fed through a multiprocessing
\* SimpleQueue instead of a pipe.
VARIABLES
    s2Queue,        \* the shared imageQueue: messages put and not yet taken
    s2Sends,        \* number of frames the producer has put on the queue
    s2ExitPut,      \* whether ShowProcess.exit() has been called
    s2Tk,           \* how the Tk build treats calls from another thread, fixed when
                    \* the interpreter is created: "none" (not created) | "direct"
                    \* (run at once) | "threaded" (handed to the main thread's loop)
    s2MainPc,       \* main thread in ShowApp.__init__: tk | start | atexit |
                    \* protocol | bind | mainloop | exited
    s2ThreadPc,     \* thread showImages: idle | canvas | get | test | gen | render |
                    \* returned | dead
    s2Picture,      \* showImages' local variable `picture`
    s2Bound,        \* whether <<ListenerExit>> is bound to onListenerExit
    s2Events,       \* <<ListenerExit>> events delivered to a bound handler, pending
    s2Canvas,       \* whether self.canvas exists
    s2Title,        \* window title
    s2ImageID,      \* showImages' local variable `imageID` (0 is None)
    s2Closes        \* number of WM_DELETE_WINDOW callbacks run

s2Vars == <<s2Queue, s2Sends, s2ExitPut, s2Tk, s2MainPc, s2ThreadPc, s2Picture, s2Bound,
            s2Events, s2Canvas, s2Title, s2ImageID, s2Closes>>

showVars == <<toChild, toParent, producerEnd, sent, exitResult, producerPic, spawned, listenerPc, picture,
          listenerError, imageQueue, events, procState, title, image, canvasSize,
          imageID, nItems, rendered, displayed, closes>>

\* A Sound object of Sound.py.
VARIABLES
    sndFrames,      \* self.numFrames (0: no sound constructed yet)
    sndChannels,    \* self.numChannels
    sndBuffer,      \* self.buffer: the bytes, buffer[0] first
    sndOps,         \* number of set operations applied so far
    sndLast         \* the last set operation: its name, frame number, argument
                    \* and the buffer it was applied to

sndVars == <<sndFrames, sndChannels, sndBuffer, sndOps, sndLast>>

\* The explorer subprocess of pictureTool.py and the main process's end of its
\* pipe.
VARIABLES
    xPc,            \* ExploreProcess.run: start | gui | ended | notify | wait | leave |
                    \* exited | killed (terminated by the main process)
    xToMain,        \* pipe, explorer -> main process: messages in flight
    xToChild,       \* pipe, main process -> explorer: messages in flight
    xMainPc,        \* main process in ExploreProcess.exit(): idle | terminated |
                    \* sent | returned
    xNotified,      \* number of exit codes run() has sent
    xReply,         \* what run()'s recv returned ("none" before)
    cursorX,        \* ExploreApp.cursorX
    cursorY,        \* ExploreApp.cursorY
    xZoom,          \* ExploreApp.zoomFactorVariable, in percent
    xLastInput      \* the last cursor input: none | inside | outside | invalid

\* The explorer's zoom level and the kind of its last cursor input.
xView == <<xZoom, xLastInput>>

xVars == <<xPc, xToMain, xToChild, xMainPc, xNotified, xReply, cursorX, cursorY, xView>>

vars == <<showVars, s2Vars, sndVars, xVars>>

\* What the steps of show.py, of show2.py, of Sound.py and of pictureTool.py
\* leave alone.
notShow == <<s2Vars, sndVars, xVars>>
notShow2 == <<showVars, sndVars, xVars>>
notSound == <<showVars, s2Vars, xVars>>
notExplore == <<showVars, s2Vars, sndVars>>

NoOp == [name |-> "none", frameNum |-> 0, value |-> 0, before |-> <<>>]

\* The producer's state that no step of the display process touches.
producerLocal == <<producerPic, spawned>>
producerVars == <<toChild, producerEnd, sent, exitResult, producerLocal>>
listenerVars == <<listenerPc, picture, listenerError>>
guiVars == <<title, image, canvasSize, imageID, nItems, rendered, displayed>>

NoPicture == [kind |-> "none", n |-> 0, content |-> "none"]

Init ==
    /\ toChild = <<>>
    /\ toParent = <<>>
    /\ producerEnd = "open"
    /\ sent = <<>>
    /\ exitResult = "notcalled"
    /\ producerPic \in Contents
    /\ spawned = FALSE
    /\ listenerPc = "idle"
    /\ picture = NoPicture
    /\ listenerError = NoError
    /\ imageQueue = <<>>
    /\ events = <<>>
    /\ procState = "created"
    /\ title = <<"title", "tk">>
    /\ image = <<"photo", "none">>
    /\ canvasSize = <<"default", "default">>
    /\ imageID = 0
    /\ nItems = 0
    /\ rendered = <<>>
    /\ displayed = <<>>
    /\ closes = 0
    /\ s2Queue = <<>>
    /\ s2Sends = 0
    /\ s2ExitPut = FALSE
    /\ s2Tk = "none"
    /\ s2MainPc = "tk"
    /\ s2ThreadPc = "idle"
    /\ s2Picture = NoPicture
    /\ s2Bound = FALSE
    /\ s2Events = <<>>
    /\ s2Canvas = FALSE
    /\ s2Title = <<"title", "tk">>
    /\ s2ImageID = 0
    /\ s2Closes = 0
    /\ sndFrames = 0
    /\ sndChannels = 0
    /\ sndBuffer = <<>>
    /\ sndOps = 0
    /\ sndLast = NoOp
    /\ xPc = "start"
    /\ xToMain = <<>>
    /\ xToChild = <<>>
    /\ xMainPc = "idle"
    /\ xNotified = 0
    /\ xReply = "none"
    /\ cursorX = 0
    /\ cursorY = 0
    /\ xZoom = 100
    /\ xLastInput = "none"

\* ---------------------------------------------------------------- producer
\* pipe.send(m) on the producer's end: possible while that end is open and the
\* display process still holds the other end.
CanSend == producerEnd = "open" /\ procState # "terminated" /\ Len(sent) < MaxSends

PipeSend(m) ==
    /\ toChild' = Append(toChild, m)
    /\ sent' = Append(sent, m)

\* The producer has observed the display process's exit notification and
\* forgotten the subprocess (it answered with the exit instruction).
ProducerReplied == \E j \in 1..Len(sent) : sent[j].kind = "exit"

\* show()/repaint() on a subprocess the producer holds: the producer sends its
\* picture, as it is now, as one frame (or sends an object that is no picture).
ProducerShow ==
    /\ CanSend
    /\ toParent = <<>>
    /\ ~ProducerReplied
    /\ \E m \in {Picture(Len(sent) + 1, producerPic),
                 TitleOnly(Len(sent) + 1, producerPic),
                 NoAttr(Len(sent) + 1)} :
          PipeSend(m)
    /\ UNCHANGED <<toParent, producerEnd, exitResult, producerLocal, listenerVars,
                   imageQueue, events, procState, guiVars, closes>>
    /\ UNCHANGED notShow

\* show() after the producer has forgotten the subprocess: it spawns a fresh
\* display subprocess and sends the frame there.
ProducerShowFresh ==
    /\ ProducerReplied
    /\ ~spawned
    /\ spawned' = TRUE
    /\ UNCHANGED <<toChild, toParent, producerEnd, sent, exitResult, producerPic,
                   listenerVars, imageQueue, events, procState, guiVars, closes>>
    /\ UNCHANGED notShow

\* The producer changes its picture (setColor, addRect, ...).
ProducerMutate ==
    /\ producerEnd = "open"
    /\ \E c \in Contents \ {producerPic} : producerPic' = c
    /\ UNCHANGED <<toChild, toParent, producerEnd, sent, exitResult, spawned,
                   listenerVars, imageQueue, events, procState, guiVars, closes>>
    /\ UNCHANGED notShow

\* ShowProcess.exit() made to wait for an acknowledgement that never comes and
\* to report the timeout.
ShowProcess_exit_timeout ==
    /\ CanSend
    /\ PipeSend(NOTIFY_EXIT(Len(sent) + 1))
    /\ exitResult' = "SubprocessUnresponsive"
    /\ UNCHANGED <<toParent, producerEnd, listenerVars, imageQueue, events,
                   procState, guiVars, closes>>
    /\ UNCHANGED producerLocal
    /\ UNCHANGED notShow

\* ShowProcess.exit(): self.pipe.send(ShowApp.NOTIFY_EXIT), then return. The
\* message is taken to reach the listener of the subprocess, as the method's
\* docstring says it does.
ShowProcess_exit ==
    /\ CanSend
    /\ PipeSend(NOTIFY_EXIT(Len(sent) + 1))
    /\ exitResult' = "None"
    /\ UNCHANGED <<toParent, producerEnd, listenerVars, imageQueue, events,
                   procState, guiVars, closes>>
    /\ UNCHANGED producerLocal
    /\ UNCHANGED notShow

\* The main process's reply to an exit notification: the exit instruction
\* ShowApp.EXIT_CODE.
ProducerReply ==
    /\ CanSend
    /\ toParent # <<>>
    /\ PipeSend(EXIT_CODE(Len(sent) + 1))
    /\ toParent' = Tail(toParent)
    /\ UNCHANGED <<producerEnd, exitResult, listenerVars, imageQueue, events,
                   procState, guiVars, closes>>
    /\ UNCHANGED producerLocal
    /\ UNCHANGED notShow

\* The producer closes its end of the pipe (or dies).
ProducerClose ==
    /\ producerEnd = "open"
    /\ producerEnd' = "closed"
    /\ UNCHANGED <<toChild, toParent, sent, exitResult, listenerVars, imageQueue,
                   events, procState, guiVars, closes>>
    /\ UNCHANGED producerLocal
    /\ UNCHANGED notShow

\* ---------------------------------------------------------------- listener
\* `picture != self.EXIT_CODE`: the loop test of ShowApp.listen.
IsExitCode(p) == p.kind = "exit"

\* Put with the new item placed at the front of the queue instead of the back.
PutFront(q, x) == <<x>> \o q

\* self.imageQueue.put_nowait(picture): queue.Queue is first in, first out.
Put(q, x) == Append(q, x)

\* The except clauses around the recv at line 103: `except EOFError` and
\* `except BrokenPipeError or OSError`, whose expression evaluates to
\* BrokenPipeError alone. The recv at line 91 is outside the try statement.
Catches(exc) ==
    /\ exc.line = 103
    /\ exc.type \in {"EOFError", "BrokenPipeError"}

\* The line of the recv call the listener is at.
RecvLine == IF listenerPc = "recv0" THEN 91 ELSE 103

\* What the listener does with an exception raised by pipe.recv(): a caught one
\* breaks out of the loop, an uncaught one ends the thread.
RecvRaises(exc) ==
    /\ listenerError' = exc
    /\ listenerPc' = IF Catches(exc) THEN "post_exit" ELSE "dead"
    /\ UNCHANGED picture

\* recv handing over a reference to the producer's live picture instead of the
\* copy that was sent.
listen_recv_live ==
    /\ listenerPc \in {"recv0", "recv"}
    /\ toChild # <<>>
    /\ picture' = IF Head(toChild).kind \in {"picture", "titleonly"}
                  THEN [Head(toChild) EXCEPT !.content = producerPic]
                  ELSE Head(toChild)
    /\ toChild' = Tail(toChild)
    /\ listenerPc' = "test"
    /\ UNCHANGED <<toParent, producerEnd, sent, exitResult, producerLocal, listenerError,
                   imageQueue, events, procState, guiVars, closes>>
    /\ UNCHANGED notShow

\* picture = self.pipe.recv() (lines 91 and 103): the next message, or EOFError
\* once the producer's end is closed and the pipe is drained.
listen_recv ==
    /\ listenerPc \in {"recv0", "recv"}
    /\ \/ /\ toChild # <<>>
          /\ picture' = Head(toChild)
          /\ toChild' = Tail(toChild)
          /\ listenerPc' = "test"
          /\ UNCHANGED listenerError
       \/ /\ toChild = <<>>
          /\ producerEnd = "closed"
          /\ RecvRaises(Raised("EOFError", RecvLine))
          /\ UNCHANGED toChild
    /\ UNCHANGED <<toParent, producerEnd, sent, exitResult, imageQueue, events,
                   procState, guiVars, closes>>
    /\ UNCHANGED producerLocal
    /\ UNCHANGED notShow

\* pipe.recv() fails with an OS-level error: a broken pipe, or another OSError.
listen_recv_fault ==
    /\ listenerPc \in {"recv0", "recv"}
    /\ listenerError = NoError
    /\ \E t \in {"BrokenPipeError", "OSError"} : RecvRaises(Raised(t, RecvLine))
    /\ UNCHANGED <<toChild, toParent, producerEnd, sent, exitResult, imageQueue, events,
                   procState, guiVars, closes>>
    /\ UNCHANGED producerLocal
    /\ UNCHANGED notShow

\* listen_put with the frame drawn by the listener itself, as well as queued.
listen_put_draws ==
    /\ listenerPc = "test"
    /\ IF IsExitCode(picture)
       THEN /\ listenerPc' = "post_exit"
            /\ UNCHANGED <<imageQueue, title>>
       ELSE /\ imageQueue' = Put(imageQueue, picture)
            /\ title' = getTitle(picture)
            /\ listenerPc' = "gen"
    /\ UNCHANGED <<producerVars, toParent, picture, listenerError, events, procState,
                   image, canvasSize, imageID, nItems, rendered, displayed, closes>>
    /\ UNCHANGED notShow

\* while picture != self.EXIT_CODE: self.imageQueue.put_nowait(picture)
listen_put ==
    /\ listenerPc = "test"
    /\ IF IsExitCode(picture)
       THEN /\ listenerPc' = "post_exit"
            /\ UNCHANGED imageQueue
       ELSE /\ imageQueue' = Put(imageQueue, picture)
            /\ listenerPc' = "gen"
    /\ UNCHANGED <<toChild, toParent, producerEnd, sent, exitResult, picture,
                   listenerError, events, procState, guiVars, closes>>
    /\ UNCHANGED producerLocal
    /\ UNCHANGED notShow

\* listen_event_ImageQueued posting the event twice for one frame.
listen_event_twice ==
    /\ listenerPc = "gen"
    /\ events' = events \o <<"ImageQueued", "ImageQueued">>
    /\ listenerPc' = "recv"
    /\ UNCHANGED <<toChild, toParent, producerEnd, sent, exitResult, picture,
                   listenerError, imageQueue, procState, guiVars, closes>>
    /\ UNCHANGED producerLocal
    /\ UNCHANGED notShow

\* self.root.event_generate('<<ImageQueued>>', when='tail')
listen_event_ImageQueued ==
    /\ listenerPc = "gen"
    /\ events' = Append(events, "ImageQueued")
    /\ listenerPc' = "recv"
    /\ UNCHANGED <<toChild, toParent, producerEnd, sent, exitResult, picture,
                   listenerError, imageQueue, procState, guiVars, closes>>
    /\ UNCHANGED producerLocal
    /\ UNCHANGED notShow

\* self.root.event_generate('<<ListenerExit>>', when='head')
listen_event_ListenerExit ==
    /\ listenerPc = "post_exit"
    /\ events' = <<"ListenerExit">> \o events
    /\ listenerPc' = "ending"
    /\ UNCHANGED <<toChild, toParent, producerEnd, sent, exitResult, picture,
                   listenerError, imageQueue, procState, guiVars, closes>>
    /\ UNCHANGED producerLocal
    /\ UNCHANGED notShow

\* logger(f"... {self.listenerThread.ident} ..."); return. Once onListenerExit
\* has run `del self.listenerThread` the log line raises AttributeError. The
\* thread is a daemon: it runs no further once the process has exited.
listen_return ==
    /\ listenerPc = "ending"
    /\ procState # "terminated"
    /\ IF procState = "quit"
       THEN /\ listenerPc' = "dead"
            /\ listenerError' = Raised("AttributeError", 114)
       ELSE /\ listenerPc' = "done"
            /\ UNCHANGED listenerError
    /\ UNCHANGED <<producerVars, toParent, picture, imageQueue, events, procState,
                   guiVars, closes>>
    /\ UNCHANGED notShow

\* The listener left its loop and posted <<ListenerExit>>.
ListenerPostedExit == listenerPc \in {"ending", "done"} \/ listenerError.line = 114

\* -------------------------------------------------------------- event loop
\* Render that refreshes the title but leaves the canvas image and size of an
\* existing item as they were.
RenderStaleImage(p) ==
    IF p.kind = "picture"
    THEN /\ title' = getTitle(p)
         /\ IF imageID = 0
            THEN /\ image' = PhotoImage(getImage(p))
                 /\ canvasSize' = <<getWidth(p), getHeight(p)>>
                 /\ nItems' = nItems + 1
                 /\ imageID' = nItems + 1
            ELSE UNCHANGED <<image, canvasSize, nItems, imageID>>
         /\ rendered' = Append(rendered, p)
         /\ displayed' = Append(displayed,
                                Display(title', image', canvasSize'[1], canvasSize'[2]))
         /\ UNCHANGED procState
    ELSE /\ title' = IF p.kind = "titleonly" THEN getTitle(p) ELSE title
         /\ UNCHANGED <<image, canvasSize, imageID, nItems, rendered, displayed, procState>>

\* Render creating a new canvas image item at every frame.
RenderAlwaysCreate(p) ==
    IF p.kind = "picture"
    THEN /\ title' = getTitle(p)
         /\ image' = PhotoImage(getImage(p))
         /\ canvasSize' = <<getWidth(p), getHeight(p)>>
         /\ nItems' = nItems + 1
         /\ imageID' = nItems + 1
         /\ rendered' = Append(rendered, p)
         /\ displayed' = Append(displayed,
                                Display(title', image', canvasSize'[1], canvasSize'[2]))
         /\ UNCHANGED procState
    ELSE /\ title' = IF p.kind = "titleonly" THEN getTitle(p) ELSE title
         /\ UNCHANGED <<image, canvasSize, imageID, nItems, rendered, displayed, procState>>

\* Render with the canvas width and height taken from each other's method.
RenderSwapped(p) ==
    IF p.kind = "picture"
    THEN /\ title' = getTitle(p)
         /\ image' = PhotoImage(getImage(p))
         /\ canvasSize' = <<getHeight(p), getWidth(p)>>
         /\ IF imageID = 0
            THEN /\ nItems' = nItems + 1
                 /\ imageID' = nItems + 1
            ELSE UNCHANGED <<nItems, imageID>>
         /\ rendered' = Append(rendered, p)
         /\ displayed' = Append(displayed,
                                Display(title', image', canvasSize'[1], canvasSize'[2]))
         /\ UNCHANGED procState
    ELSE /\ title' = IF p.kind = "titleonly" THEN getTitle(p) ELSE title
         /\ UNCHANGED <<image, canvasSize, imageID, nItems, rendered, displayed, procState>>

\* Render with an except clause that treats an object that is no picture as
\* fatal and quits the main loop.
RenderNoExcept(p) ==
    IF p.kind = "picture"
    THEN /\ title' = getTitle(p)
         /\ image' = PhotoImage(getImage(p))
         /\ canvasSize' = <<getWidth(p), getHeight(p)>>
         /\ IF imageID = 0
            THEN /\ nItems' = nItems + 1
                 /\ imageID' = nItems + 1
            ELSE UNCHANGED <<nItems, imageID>>
         /\ rendered' = Append(rendered, p)
         /\ displayed' = Append(displayed,
                                Display(title', image', canvasSize'[1], canvasSize'[2]))
         /\ UNCHANGED procState
    ELSE /\ procState' = "quit"
         /\ title' = IF p.kind = "titleonly" THEN getTitle(p) ELSE title
         /\ UNCHANGED <<image, canvasSize, imageID, nItems, rendered, displayed>>

\* ShowApp.__init__ up to the listener's start: the root window, the
\* WM_DELETE_WINDOW callback, the bindings of <<ListenerExit>> and
\* <<ImageQueued>>, the canvas, the image queue, self.image and self.imageID.
ShowApp_init_bind ==
    /\ procState = "created"
    /\ procState' = "bound"
    /\ UNCHANGED <<producerVars, toParent, listenerVars, imageQueue, events, guiVars,
                   closes>>
    /\ UNCHANGED notShow

\* self.listenerThread = Thread(target=self.listen, daemon=True);
\* self.listenerThread.start()
ShowApp_init_start ==
    /\ procState = "bound"
    /\ procState' = "starting"
    /\ listenerPc' = "recv0"
    /\ UNCHANGED <<producerVars, toParent, picture, listenerError, imageQueue, events,
                   guiVars, closes>>
    /\ UNCHANGED notShow

\* ShowApp_mainloop with the events posted before the loop started thrown away.
ShowApp_mainloop_flush ==
    /\ procState = "starting"
    /\ procState' = "running"
    /\ events' = <<>>
    /\ UNCHANGED <<producerVars, toParent, listenerVars, imageQueue, guiVars, closes>>
    /\ UNCHANGED notShow

\* self.root.mainloop(): the event loop starts and takes the events in the
\* window's queue, those posted before it started included.
ShowApp_mainloop ==
    /\ procState = "starting"
    /\ procState' = "running"
    /\ UNCHANGED <<producerVars, toParent, listenerVars, imageQueue, events, guiVars,
                   closes>>
    /\ UNCHANGED notShow

\* The try block of showImage on a dequeued object p: the statements run in
\* order until one raises AttributeError, which the except clause swallows.
Render(p) ==
    IF p.kind = "picture"
    THEN /\ title' = getTitle(p)
         /\ image' = PhotoImage(getImage(p))
         /\ canvasSize' = <<getWidth(p), getHeight(p)>>
         /\ IF imageID = 0
            THEN /\ nItems' = nItems + 1
                 /\ imageID' = nItems + 1
            ELSE UNCHANGED <<nItems, imageID>>
         /\ rendered' = Append(rendered, p)
         /\ displayed' = Append(displayed,
                                Display(title', image', canvasSize'[1], canvasSize'[2]))
         /\ UNCHANGED procState
    ELSE /\ title' = IF p.kind = "titleonly" THEN getTitle(p) ELSE title
         /\ UNCHANGED <<image, canvasSize, imageID, nItems, rendered, displayed, procState>>

\* showImage, bound to <<ImageQueued>>: picture = self.imageQueue.get(), then
\* the try block. The get blocks while the queue is empty.
showImage ==
    /\ procState = "running"
    /\ events # <<>>
    /\ Head(events) = "ImageQueued"
    /\ imageQueue # <<>>
    /\ events' = Tail(events)
    /\ imageQueue' = Tail(imageQueue)
    /\ Render(Head(imageQueue))
    /\ UNCHANGED <<producerVars, toParent, listenerVars, closes>>
    /\ UNCHANGED notShow

\* The pipe towards the producer is full and the producer still holds its end:
\* a send on the display process's end waits.
SendWouldBlock == producerEnd = "open" /\ Len(toParent) >= PipeCapacity

\* __notifyExit: self.pipe.send(self.NOTIFY_EXIT), to the producer, on the
\* thread of the event loop. The send waits while the pipe is full, and fails
\* (reported by Tk, the loop goes on) once the producer's end is closed.
notifyExit ==
    IF SendWouldBlock
    THEN /\ procState' = "sending"
         /\ UNCHANGED toParent
    ELSE /\ procState' = "running"
         /\ toParent' = IF producerEnd = "open"
                        THEN Append(toParent, NOTIFY_EXIT(0))
                        ELSE toParent

\* onWindowClosed, the WM_DELETE_WINDOW callback: self.__notifyExit(); the
\* window is not destroyed.
onWindowClosed ==
    /\ procState = "running"
    /\ closes < MaxCloses
    /\ closes' = closes + 1
    /\ notifyExit
    /\ UNCHANGED <<producerVars, listenerVars, imageQueue, events, guiVars>>
    /\ UNCHANGED notShow

\* The send of __notifyExit that was waiting completes, and onWindowClosed
\* returns to the event loop.
onWindowClosed_resume ==
    /\ procState = "sending"
    /\ ~SendWouldBlock
    /\ notifyExit
    /\ UNCHANGED <<producerVars, listenerVars, imageQueue, events, guiVars, closes>>
    /\ UNCHANGED notShow

\* onListenerExit, bound to <<ListenerExit>>: self.root.destroy();
\* self.root.quit(). Destroying the root discards its pending events.
onListenerExit ==
    /\ procState = "running"
    /\ events # <<>>
    /\ Head(events) = "ListenerExit"
    /\ events' = <<>>
    /\ procState' = "quit"
    /\ UNCHANGED <<producerVars, toParent, listenerVars, imageQueue, guiVars, closes>>
    /\ UNCHANGED notShow

\* ShowProcess.run after ShowApp(...) returns: del self.app; exit().
run ==
    /\ procState = "quit"
    /\ procState' = "terminated"
    /\ UNCHANGED <<producerVars, toParent, listenerVars, imageQueue, events, guiVars,
                   closes>>
    /\ UNCHANGED notShow

\* ------------------------------------------------------------ specification
ListenerStep ==
    \/ listen_recv
    \/ listen_put
    \/ listen_event_ImageQueued
    \/ listen_event_ListenerExit
    \/ listen_return

EventLoopStep ==
    \/ ShowApp_init_bind
    \/ ShowApp_init_start
    \/ ShowApp_mainloop
    \/ showImage
    \/ onWindowClosed_resume
    \/ onListenerExit

DisplayStep == ListenerStep \/ EventLoopStep \/ run

Next ==
    \/ ProducerShow
    \/ ProducerShowFresh
    \/ ProducerMutate
    \/ ShowProcess_exit
    \/ ProducerReply
    \/ ProducerClose
    \/ ShowApp_init_bind
    \/ ShowApp_init_start
    \/ ShowApp_mainloop
    \/ listen_recv
    \/ listen_recv_fault
    \/ listen_put
    \/ listen_event_ImageQueued
    \/ listen_event_ListenerExit
    \/ listen_return
    \/ showImage
    \/ onWindowClosed
    \/ onWindowClosed_resume
    \/ onListenerExit
    \/ run

Spec == Init /\ [][Next]_vars

\* The same program on a pipe that never fails, with both threads of the
\* display process and its main function scheduled fairly.
NextReliable ==
    \/ ProducerShow
    \/ ProducerShowFresh
    \/ ProducerMutate
    \/ ShowProcess_exit
    \/ ProducerReply
    \/ ProducerClose
    \/ ShowApp_init_bind
    \/ ShowApp_init_start
    \/ ShowApp_mainloop
    \/ listen_recv
    \/ listen_put
    \/ listen_event_ImageQueued
    \/ listen_event_ListenerExit
    \/ listen_return
    \/ showImage
    \/ onWindowClosed
    \/ onWindowClosed_resume
    \/ onListenerExit
    \/ run

FairSpec ==
    /\ Init
    /\ [][NextReliable]_vars
    /\ WF_vars(ListenerStep)
    /\ WF_vars(EventLoopStep)
    /\ WF_vars(run)

\* ------------------------------------------------------------------ helpers
IsPicture(m) == m.kind = "picture"
IsMalformed(m) == m.kind \in {"noattr", "titleonly", "bytes0"}
Terminated == procState = "terminated"
\* Everything the producer sent has been received, queued and handled.
Drained ==
    /\ toChild = <<>>
    /\ listenerPc = "recv"
    /\ imageQueue = <<>>
    /\ events = <<>>
\* The producer has called ShowProcess.exit() before its send number n.
ExitSentBefore(n) == \E j \in 1..Len(sent) : j < n /\ sent[j].kind = "bytes0"

\* ------------------------------------------------------------------- claims
\* C1: frames are rendered in send order: a frame sent earlier is never
\* rendered after a frame sent later, and every rendered frame is the frame
\* the producer sent at that position.
C1_RenderedInSendOrder ==
    /\ \A i, j \in 1..Len(rendered) : i < j => rendered[i].n < rendered[j].n
    /\ \A i \in 1..Len(rendered) :
          /\ rendered[i].n \in 1..Len(sent)
          /\ sent[rendered[i].n] = rendered[i]

C1_Witness ==
    /\ Len(rendered) >= 2
    /\ rendered[1].content # rendered[2].content

\* C2: no frame is dropped: once the event loop has ended, no frame is left
\* undrawn in the pending-frame queue.
C2_NoFrameDropped ==
    procState \in {"quit", "terminated"} =>
        \A i \in 1..Len(imageQueue) : ~IsPicture(imageQueue[i])

\* C3: a call of ShowProcess.exit() leads to the display process reaching
\* Terminated, under fair scheduling of its threads.
C3_ProducerExitTerminates == (exitResult = "None") ~> Terminated

\* C4: a frame sent after ShowProcess.exit() on the same pipe is never put
\* on the pending-frame queue and never rendered.
C4_NoFrameAfterExit ==
    /\ \A i \in 1..Len(imageQueue) :
          IsPicture(imageQueue[i]) => ~ExitSentBefore(imageQueue[i].n)
    /\ \A i \in 1..Len(rendered) : ~ExitSentBefore(rendered[i].n)

\* C5: after the user has closed the window, once the producer has answered
\* the handshake or closed its end of the pipe, the display process reaches
\* Terminated.
C5_UserCloseTerminates ==
    (closes > 0 /\ (ProducerReplied \/ producerEnd = "closed")) ~> Terminated

\* C6: whenever a receive of the listener reports end of file, the listener
\* goes on to post the exit event.
C6_EofPostsExit ==
    listenerError.type = "EOFError" => listenerPc \in {"post_exit", "ending", "done"}

\* C7: a transport failure of the receive inside the listener's loop (a broken
\* pipe or any other OS error) makes the listener leave the loop and post the
\* exit event, as a closed pipe does.
C7_TransportFailurePostsExit ==
    (listenerError.type \in {"BrokenPipeError", "OSError"} /\ listenerError.line = 103)
        => listenerPc \in {"post_exit", "ending", "done"}

\* C8: when the producer has called ShowProcess.exit() and the user has closed
\* the window, the display process is never left alive with no step of its
\* own to take.
C8_NoStuckTermination ==
    (exitResult = "None" /\ closes > 0 /\ ~ENABLED DisplayStep) => Terminated

\* C9: an object that is no picture does not stop the render loop, which ends
\* only on the listener's exit event, and whenever everything sent has been
\* handled the frames rendered are all the valid frames sent, those sent after
\* a malformed one included.
C9_MalformedFrameSkipped ==
    /\ procState \notin {"quit", "terminated"} \/ ListenerPostedExit
    /\ (Drained /\ procState = "running") => rendered = SelectSeq(sent, IsPicture)

C9_Witness ==
    /\ Drained
    /\ procState = "running"
    /\ \E i, j \in 1..Len(sent) :
          /\ i < j
          /\ IsMalformed(sent[i])
          /\ IsPicture(sent[j])
          /\ \E k \in 1..Len(rendered) : rendered[k] = sent[j]

C14_ListenerLeavesGuiAlone ==
    [][(listenerPc # "idle" /\ listenerPc' # listenerPc) =>
          /\ UNCHANGED <<title, image, canvasSize, imageID, nItems, rendered, displayed>>
          /\ UNCHANGED <<toParent, procState, closes>>]_vars

\* The listener has queued a frame while the event loop has drawn an earlier one.
C14_Witness ==
    /\ listenerPc = "recv"
    /\ imageQueue # <<>>
    /\ Len(rendered) >= 1

\* C15: when the display process has exited, its listener thread has finished
\* (or has been joined).
C15_ListenerFinishedBeforeExit == Terminated => listenerPc = "done"

\* C16: the thread of the event loop is never waiting inside a handler.
C16_EventLoopNeverBlocks == procState # "sending"

\* C17: in the display process only the listener thread uses the pipe: every
\* message put on the pipe towards the producer is put there by a step of the
\* listener.
C17_OnlyListenerUsesPipe ==
    [][Len(toParent') > Len(toParent) => listenerPc' # listenerPc]_vars

\* C18: an exit message is never put on the pending-frame queue, and the
\* listener leaves its loop on nothing but an exit message.
C18_ControlNeverQueued ==
    /\ \A i \in 1..Len(imageQueue) : imageQueue[i].kind \notin {"bytes0", "exit"}
    /\ listenerPc = "post_exit" =>
          \/ picture.kind \in {"bytes0", "exit"}
          \/ listenerError # NoError

\* C19: the canvas image item is created at most once, by the first frame
\* rendered, and imageID is that item from then on.
C19_ImageItemCreatedOnce ==
    /\ nItems <= 1
    /\ imageID = IF rendered = <<>> THEN 0 ELSE 1

C19_Witness ==
    /\ Len(rendered) >= 2
    /\ imageID = 1

\* The number of events e in the event queue q.
CountEvents(q, e) == Len(SelectSeq(q, LAMBDA x : x = e))

\* The event loop of show.py has not ended.
LoopAlive == procState \in {"starting", "running", "sending"}

\* C24: repaint refreshes title and image together: what the window shows
\* after showImage has drawn a valid frame - title, image, canvas width and
\* height - is all taken from that one frame, for every frame drawn.
C24_TitleAndImageTogether ==
    /\ Len(displayed) = Len(rendered)
    /\ \A i \in 1..Len(rendered) :
          /\ displayed[i].title = getTitle(rendered[i])
          /\ displayed[i].image = PhotoImage(getImage(rendered[i]))
          /\ displayed[i].width = getWidth(rendered[i])
          /\ displayed[i].height = getHeight(rendered[i])

\* Two valid frames of different content have been drawn on the same item.
C24_Witness ==
    /\ Len(rendered) >= 2
    /\ rendered[1].content # rendered[2].content
    /\ image = PhotoImage(getImage(rendered[Len(rendered)]))

C26_EventsWithinQueue ==
    /\ CountEvents(events, "ImageQueued") <= Len(imageQueue)
    /\ (procState = "running" /\ events # <<>> /\ Head(events) = "ImageQueued")
          => ENABLED showImage

\* Two frames wait in imageQueue, each with its event.
C26_Witness ==
    /\ Len(imageQueue) = 2
    /\ CountEvents(events, "ImageQueued") = 2

\* C27: the display process sends at most one exit notification to the
\* producer: only the first window close puts a message on the pipe.
C27_AtMostOneNotification ==
    [][Len(toParent') > Len(toParent) => closes' <= 1]_vars

\* ------------------------------------------------------------------ show2.py
\* What travels on show2.py's imageQueue: a picture, an object that is no
\* picture, or ShowApp.EXIT_CODE = 'exit'. `by` records which process put it.
Show2_Frame(c) == [kind |-> "picture", by |-> "producer", content |-> c]
Show2_NoAttr == [kind |-> "noattr", by |-> "producer", content |-> "none"]
Show2_EXIT_CODE(by) == [kind |-> "exit", by |-> by, content |-> "none"]

\* The producer puts a frame on the queue it shares with the display process.
Show2_show ==
    /\ s2Sends < MaxSends
    /\ s2Sends' = s2Sends + 1
    /\ \E m \in {Show2_Frame(c) : c \in Contents} \cup {Show2_NoAttr} :
          s2Queue' = Append(s2Queue, m)
    /\ UNCHANGED <<s2Tk, s2ExitPut, s2MainPc, s2ThreadPc, s2Picture, s2Bound, s2Events,
                   s2Canvas, s2Title, s2ImageID, s2Closes>>
    /\ UNCHANGED notShow2

\* ShowProcess.exit(): self.imageQueue.put(ShowApp.EXIT_CODE)
Show2_exit ==
    /\ ~s2ExitPut
    /\ s2ExitPut' = TRUE
    /\ s2Queue' = Append(s2Queue, Show2_EXIT_CODE("producer"))
    /\ UNCHANGED <<s2Tk, s2Sends, s2MainPc, s2ThreadPc, s2Picture, s2Bound, s2Events,
                   s2Canvas, s2Title, s2ImageID, s2Closes>>
    /\ UNCHANGED notShow2

\* ShowApp.__init__: self.root = tk.Tk(); self.imageQueue = imageQueue;
\* stopEvent = Event()
Show2_init_Tk ==
    /\ s2MainPc = "tk"
    /\ s2Tk' \in {"direct", "threaded"}
    /\ s2MainPc' = "start"
    /\ UNCHANGED <<s2Queue, s2Sends, s2ExitPut, s2ThreadPc, s2Picture, s2Bound,
                   s2Events, s2Canvas, s2Title, s2ImageID, s2Closes>>
    /\ UNCHANGED notShow2

\* ShowApp.__init__: self.showThread = Thread(target=self.showImages, ...,
\* daemon=True); self.showThread.start()
Show2_init_start ==
    /\ s2MainPc = "start"
    /\ s2MainPc' = "atexit"
    /\ s2ThreadPc' = "canvas"
    /\ UNCHANGED <<s2Tk, s2Queue, s2Sends, s2ExitPut, s2Picture, s2Bound, s2Events,
                   s2Canvas, s2Title, s2ImageID, s2Closes>>
    /\ UNCHANGED notShow2

\* atexit.register(self.stopBackground, stopEvent, self.showThread)
Show2_init_atexit ==
    /\ s2MainPc = "atexit"
    /\ s2MainPc' = "protocol"
    /\ UNCHANGED <<s2Tk, s2Queue, s2Sends, s2ExitPut, s2ThreadPc, s2Picture, s2Bound,
                   s2Events, s2Canvas, s2Title, s2ImageID, s2Closes>>
    /\ UNCHANGED notShow2

\* self.root.protocol("WM_DELETE_WINDOW", self.onWindowClosed)
Show2_init_protocol ==
    /\ s2MainPc = "protocol"
    /\ s2MainPc' = "bind"
    /\ UNCHANGED <<s2Tk, s2Queue, s2Sends, s2ExitPut, s2ThreadPc, s2Picture, s2Bound,
                   s2Events, s2Canvas, s2Title, s2ImageID, s2Closes>>
    /\ UNCHANGED notShow2

\* self.root.bind('<<ListenerExit>>', self.onListenerExit); the next statement
\* is self.root.mainloop()
Show2_init_bind ==
    /\ s2MainPc = "bind"
    /\ s2Bound' = TRUE
    /\ s2MainPc' = "mainloop"
    /\ UNCHANGED <<s2Tk, s2Queue, s2Sends, s2ExitPut, s2ThreadPc, s2Picture, s2Events,
                   s2Canvas, s2Title, s2ImageID, s2Closes>>
    /\ UNCHANGED notShow2

\* onWindowClosed, run by the event loop: self.imageQueue.put(self.EXIT_CODE)
Show2_onWindowClosed ==
    /\ s2MainPc = "mainloop"
    /\ s2Closes < MaxCloses
    /\ s2Closes' = s2Closes + 1
    /\ s2Queue' = Append(s2Queue, Show2_EXIT_CODE("display"))
    /\ UNCHANGED <<s2Tk, s2Sends, s2ExitPut, s2MainPc, s2ThreadPc, s2Picture, s2Bound,
                   s2Events, s2Canvas, s2Title, s2ImageID>>
    /\ UNCHANGED notShow2

\* stopBackground, registered with atexit: event.set();
\* self.imageQueue.put(self.EXIT_CODE). Whether the handlers registered with
\* atexit run when the subprocess exits depends on how it was started.
Show2_stopBackground(q) == {q, Append(q, Show2_EXIT_CODE("display"))}

\* onListenerExit, run for a <<ListenerExit>> event: self.root.quit(); exit()
Show2_onListenerExit ==
    /\ s2MainPc = "mainloop"
    /\ s2Events # <<>>
    /\ s2Events' = Tail(s2Events)
    /\ s2MainPc' = "exited"
    /\ s2Queue' \in Show2_stopBackground(s2Queue)
    /\ UNCHANGED <<s2Tk, s2Sends, s2ExitPut, s2ThreadPc, s2Picture, s2Bound,
                   s2Canvas, s2Title, s2ImageID, s2Closes>>
    /\ UNCHANGED notShow2

\* The thread showImages is a daemon: it runs while the process has not exited.
Show2_ThreadAt(pc) == s2ThreadPc = pc /\ s2MainPc # "exited"

\* A Tk call made by showImages, which is not the main thread, runs at once
\* or, where Tk hands it to the main thread, when the main thread is in mainloop.
Show2_TkCallRuns == s2Tk = "direct" \/ s2MainPc = "mainloop"

\* showImages: self.canvas = tk.Canvas(self.root); self.canvas.pack();
\* imageID = None
showImages_canvas ==
    /\ Show2_ThreadAt("canvas")
    /\ Show2_TkCallRuns
    /\ s2Canvas' = TRUE
    /\ s2ImageID' = 0
    /\ s2ThreadPc' = "get"
    /\ UNCHANGED <<s2Tk, s2Queue, s2Sends, s2ExitPut, s2MainPc, s2Picture, s2Bound,
                   s2Events, s2Title, s2Closes>>
    /\ UNCHANGED notShow2

\* while not event.is_set(): picture = self.imageQueue.get(), which waits for
\* a message. The stop event is set by stopBackground only, at interpreter exit.
showImages_get ==
    /\ Show2_ThreadAt("get")
    /\ s2Queue # <<>>
    /\ s2Picture' = Head(s2Queue)
    /\ s2Queue' = Tail(s2Queue)
    /\ s2ThreadPc' = "test"
    /\ UNCHANGED <<s2Tk, s2Sends, s2ExitPut, s2MainPc, s2Bound, s2Events, s2Canvas,
                   s2Title, s2ImageID, s2Closes>>
    /\ UNCHANGED notShow2

\* if isinstance(picture, str) and picture == self.EXIT_CODE:
showImages_test ==
    /\ Show2_ThreadAt("test")
    /\ s2ThreadPc' = IF s2Picture.kind = "exit" THEN "gen" ELSE "render"
    /\ UNCHANGED <<s2Tk, s2Queue, s2Sends, s2ExitPut, s2MainPc, s2Picture, s2Bound,
                   s2Events, s2Canvas, s2Title, s2ImageID, s2Closes>>
    /\ UNCHANGED notShow2

\* self.root.event_generate('<<ListenerExit>>'); return. The event is handled
\* by the handler bound to it at that moment; with none bound it has no effect.
showImages_event ==
    /\ Show2_ThreadAt("gen")
    /\ Show2_TkCallRuns
    /\ s2Events' = IF s2Bound THEN Append(s2Events, "ListenerExit") ELSE s2Events
    /\ s2ThreadPc' = "returned"
    /\ UNCHANGED <<s2Tk, s2Queue, s2Sends, s2ExitPut, s2MainPc, s2Picture, s2Bound,
                   s2Canvas, s2Title, s2ImageID, s2Closes>>
    /\ UNCHANGED notShow2

\* The try block of showImages: title, PhotoImage, canvas.config and
\* create_image or itemconfig; an object with no getTitle raises AttributeError,
\* which is caught.
showImages_render ==
    /\ Show2_ThreadAt("render")
    /\ Show2_TkCallRuns
    /\ IF s2Picture.kind = "picture"
       THEN /\ s2Title' = getTitle(s2Picture)
            /\ s2ImageID' = 1
       ELSE UNCHANGED <<s2Title, s2ImageID>>
    /\ s2ThreadPc' = "get"
    /\ UNCHANGED <<s2Tk, s2Queue, s2Sends, s2ExitPut, s2MainPc, s2Picture, s2Bound,
                   s2Events, s2Canvas, s2Closes>>
    /\ UNCHANGED notShow2

\* A Tk call of showImages (tk.Canvas, event_generate, root.title) that is
\* handed to the main thread gives up when the main thread does not enter
\* mainloop in time: it raises RuntimeError ("main thread is not in main
\* loop"); nothing in showImages catches it and the thread ends.
showImages_tk_fails ==
    /\ s2ThreadPc \in {"canvas", "gen", "render"}
    /\ s2Tk = "threaded"
    /\ s2MainPc \notin {"mainloop", "exited"}
    /\ s2ThreadPc' = "dead"
    /\ UNCHANGED <<s2Tk, s2Queue, s2Sends, s2ExitPut, s2MainPc, s2Picture, s2Bound,
                   s2Events, s2Canvas, s2Title, s2ImageID, s2Closes>>
    /\ UNCHANGED notShow2

Show2_MainStep ==
    \/ Show2_init_Tk
    \/ Show2_init_start
    \/ Show2_init_atexit
    \/ Show2_init_protocol
    \/ Show2_init_bind
    \/ Show2_onListenerExit

Show2_ThreadStep ==
    \/ showImages_canvas
    \/ showImages_get
    \/ showImages_test
    \/ showImages_event
    \/ showImages_render
    \/ showImages_tk_fails

Show2_Next ==
    \/ Show2_show
    \/ Show2_exit
    \/ Show2_init_Tk
    \/ Show2_init_start
    \/ Show2_init_atexit
    \/ Show2_init_protocol
    \/ Show2_init_bind
    \/ Show2_onWindowClosed
    \/ Show2_onListenerExit
    \/ showImages_canvas
    \/ showImages_get
    \/ showImages_test
    \/ showImages_event
    \/ showImages_render
    \/ showImages_tk_fails

Show2_Spec == Init /\ [][Show2_Next]_vars

\* Both threads of the display process are scheduled fairly.
Show2_FairSpec ==
    /\ Init
    /\ [][Show2_Next]_vars
    /\ WF_vars(Show2_MainStep)
    /\ WF_vars(Show2_ThreadStep)

\* C20: in show2.py, once ShowProcess.exit() has put the exit code on the
\* image queue, the display process exits, whatever the interleaving of its
\* main thread and its thread showImages.
C20_Show2ExitLeadsToExit == s2ExitPut ~> (s2MainPc = "exited")

\* C28: in show2.py the thread showImages never sets the window title, never
\* creates the canvas and never creates or updates the canvas image item.
C28_Show2ThreadLeavesGuiAlone ==
    [][(s2ThreadPc # "idle" /\ s2ThreadPc' # s2ThreadPc) =>
          UNCHANGED <<s2Title, s2Canvas, s2ImageID>>]_vars

\* C29: in show2.py, once the display process has exited, the shared image
\* queue holds no exit code that the display process put there.
C29_Show2QueueCleanAfterExit ==
    s2MainPc = "exited" =>
        \A i \in 1..Len(s2Queue) :
            ~(s2Queue[i].kind = "exit" /\ s2Queue[i].by = "display")

\* ------------------------------------------------------------------ Sound.py
\* self.sampleWidth of a 16-bit sound: int(NUM_BITS_PER_SAMPLE / 8) bytes.
SampleWidth == 2
\* Sound.MAX_NEG and Sound.MAX_POS
MAX_NEG == -32768
MAX_POS == 32767

\* The sample values and the frame the operations are tried with.
SampleValues == {MAX_NEG, -1, 0, 255, MAX_POS}
FrameBytes == <<17, 34, 51, 68>>

\* to_bytes with the most significant byte first.
to_bytes_big(v) == <<(v % 65536) \div 256, (v % 65536) % 256>>

\* value.to_bytes(2, byteorder='little', signed=True), for MAX_NEG <= v <= MAX_POS
to_bytes(v) == <<(v % 65536) % 256, (v % 65536) \div 256>>

\* int.from_bytes(bs, byteorder='little', signed=True) of two bytes
from_bytes(bs) ==
    LET u == bs[1] + 256 * bs[2]
    IN  IF u >= 32768 THEN u - 65536 ELSE u

Min(a, b) == IF a <= b THEN a ELSE b

\* buf[n:m], with n <= m, on a buffer whose first byte is buf[0]
Slice(buf, n, m) == SubSeq(buf, Min(n, Len(buf)) + 1, Min(m, Len(buf)))

\* buf[n:m] = bs: the bytes n..m-1 that exist are replaced by bs; a slice that
\* starts at or after the end of the buffer appends bs.
SliceAssign(buf, n, m, bs) ==
    SubSeq(buf, 1, Min(n, Len(buf))) \o bs \o SubSeq(buf, Min(m, Len(buf)) + 1, Len(buf))

\* buf[i] = b for an index inside the buffer
ItemAssign(buf, i, b) == [buf EXCEPT ![i + 1] = b]

\* getSampleValue(frameNum)
getSampleValue(buf, ch, frameNum) ==
    LET n == frameNum * SampleWidth * ch
    IN  from_bytes(Slice(buf, n, n + SampleWidth))

\* getRightSample(frameNum) on a stereo sound
getRightSample(buf, ch, frameNum) ==
    LET n == frameNum * SampleWidth * ch + SampleWidth
    IN  from_bytes(Slice(buf, n, n + SampleWidth))

isStereo == sndChannels # 1

\* Sound(...): a sound of some number of frames, mono (Sound(int)) or with the
\* channels of its WAV file, its samples all zero.
Sound_init ==
    /\ sndFrames = 0
    /\ \E f \in 1..MaxFrames, ch \in {1, 2} :
          /\ sndFrames' = f
          /\ sndChannels' = ch
          /\ sndBuffer' = [i \in 1..(ch * f * SampleWidth) |-> 0]
    /\ UNCHANGED <<sndOps, sndLast>>
    /\ UNCHANGED notSound

\* A set operation is applied to the sound; the frame numbers tried are the
\* valid ones and the first one past the end.
CanApply == sndFrames > 0 /\ sndOps < MaxOps

Applied(name, frameNum, value) ==
    /\ sndOps' = sndOps + 1
    /\ sndLast' = [name |-> name, frameNum |-> frameNum, value |-> value,
                   before |-> sndBuffer]
    /\ UNCHANGED <<sndFrames, sndChannels>>
    /\ UNCHANGED notSound

\* setSampleValue taking the frame's offset without the number of channels.
Sound_setSampleValue_mono ==
    /\ CanApply
    /\ \E frameNum \in 0..sndFrames, value \in SampleValues :
          LET n == frameNum * SampleWidth
          IN  /\ sndBuffer' = SliceAssign(sndBuffer, n, n + SampleWidth, to_bytes(value))
              /\ Applied("setSampleValue", frameNum, value)

\* setSampleValue(frameNum, value)
Sound_setSampleValue ==
    /\ CanApply
    /\ \E frameNum \in 0..sndFrames, value \in SampleValues :
          LET n == frameNum * SampleWidth * sndChannels
          IN  /\ sndBuffer' = SliceAssign(sndBuffer, n, n + SampleWidth, to_bytes(value))
              /\ Applied("setSampleValue", frameNum, value)

\* setRightSample(frameNum, value)
Sound_setRightSample ==
    /\ CanApply
    /\ \E frameNum \in 0..sndFrames, value \in SampleValues :
          LET n == frameNum * SampleWidth * sndChannels + SampleWidth
          IN  /\ sndBuffer' = IF isStereo
                              THEN SliceAssign(sndBuffer, n, n + SampleWidth,
                                               to_bytes(value))
                              ELSE sndBuffer
              /\ Applied("setRightSample", frameNum, value)

\* The bytes setFrame writes: for i in range(self.sampleWidth):
\*     self.buffer[frameNum * self.sampleWidth + i] = frame[i]
RECURSIVE setFrameLoop(_, _, _, _)
setFrameLoop(buf, frameNum, frame, i) ==
    IF i >= SampleWidth
    THEN buf
    ELSE setFrameLoop(ItemAssign(buf, frameNum * SampleWidth + i, frame[i + 1]),
                      frameNum, frame, i + 1)

\* setFrame(frameNum, frame)
Sound_setFrame ==
    /\ CanApply
    /\ \E frameNum \in 0..sndFrames :
          /\ sndBuffer' = IF frameNum >= sndFrames
                          THEN sndBuffer
                          ELSE setFrameLoop(sndBuffer, frameNum, FrameBytes, 0)
          /\ Applied("setFrame", frameNum, 0)

Sound_Next ==
    \/ Sound_init
    \/ Sound_setSampleValue
    \/ Sound_setRightSample
    \/ Sound_setFrame

Sound_Spec == Init /\ [][Sound_Next]_vars

\* The bytes of buffer `after` outside positions n..m-1 (counted from 0) are
\* those of `before`, and the length is the same.
SameOutside(before, after, n, m) ==
    /\ Len(after) = Len(before)
    /\ \A i \in 1..Len(before) : (i <= n \/ i > m) => after[i] = before[i]

ValidFrame(frameNum) == frameNum \in 0..(sndFrames - 1)

\* C21: on a 16-bit sound, for a valid frame number and a value of
\* MAX_NEG..MAX_POS, getSampleValue after setSampleValue returns the value set,
\* and on a stereo sound getRightSample after setRightSample does.
C21_SampleRoundTrip ==
    /\ (sndLast.name = "setSampleValue" /\ ValidFrame(sndLast.frameNum))
          => getSampleValue(sndBuffer, sndChannels, sndLast.frameNum) = sndLast.value
    /\ (sndLast.name = "setRightSample" /\ ValidFrame(sndLast.frameNum) /\ isStereo)
          => getRightSample(sndBuffer, sndChannels, sndLast.frameNum) = sndLast.value

\* The most negative value has been set as the right sample of the last frame
\* of a stereo sound whose left sample of that frame was set before.
C21_Witness ==
    /\ isStereo
    /\ sndFrames = MaxFrames
    /\ sndLast.name = "setRightSample"
    /\ sndLast.frameNum = sndFrames - 1
    /\ sndLast.value = MAX_NEG
    /\ getSampleValue(sndBuffer, sndChannels, sndLast.frameNum) = 255

C23_SetFrameWritesThatFrame ==
    sndLast.name = "setFrame" =>
        LET n == sndLast.frameNum * SampleWidth * sndChannels
            m == n + SampleWidth * sndChannels
        IN  IF sndLast.frameNum >= sndFrames
            THEN sndBuffer = sndLast.before
            ELSE /\ SameOutside(sndLast.before, sndBuffer, n, m)
                 /\ \A i \in 1..(SampleWidth * sndChannels) :
                       sndBuffer[n + i] = FrameBytes[i]

\* ------------------------------------------------------------ pictureTool.py
\* Clamp without the lower bound: min(v, size - 1).
ClampAbove(v, size) == IF v > size - 1 THEN size - 1 ELSE v

\* min(max(v, 0), size - 1) of validateXInput / validateYInput
Clamp(v, size) == IF v < 0 THEN 0 ELSE IF v > size - 1 THEN size - 1 ELSE v

\* ExploreProcess.run: self.app = ExploreApp(...), whose __init__ builds the
\* window and enters the GUI event loop.
Explore_run_app ==
    /\ xPc = "start"
    /\ xPc' = "gui"
    /\ UNCHANGED <<xToMain, xToChild, xMainPc, xNotified, xReply, cursorX, cursorY>>
    /\ UNCHANGED xView
    /\ UNCHANGED notExplore

\* self.zoomLevels, in percent
ZoomLevels == {25, 50, 75, 100, 150, 200, 500}

\* The canvas coordinates of the clicks and drags tried (a drag may leave the
\* image on either side), and the texts typed into the coordinate fields.
ClickCoords == {-2, 0, 1, 3, 8, ImageWidth * 5 + 2}
TypedEntries == {<<"2">>, <<"0", "3">>, <<"-", "1">>, <<"9", "9">>,
                 <<"a">>, <<>>, <<"-">>, <<"1", ".", "5">>}

DigitChars == <<"0", "1", "2", "3", "4", "5", "6", "7", "8", "9">>
IsDigit(c) == \E d \in 1..10 : DigitChars[d] = c
DigitVal(c) == (CHOOSE d \in 1..10 : DigitChars[d] = c) - 1

\* str(n) of an integer, as a sequence of characters
RECURSIVE Digits(_)
Digits(n) == IF n < 10 THEN <<DigitChars[n + 1]>>
             ELSE Digits(n \div 10) \o <<DigitChars[(n % 10) + 1]>>

str(n) == IF n < 0 THEN <<"-">> \o Digits(-n) ELSE Digits(n)

RECURSIVE DigitsValue(_)
DigitsValue(s) == IF s = <<>> THEN 0
                  ELSE DigitsValue(SubSeq(s, 1, Len(s) - 1)) * 10 + DigitVal(s[Len(s)])

\* int(x) of a text: ok is FALSE where int raises ValueError
int(s) ==
    LET neg == s # <<>> /\ s[1] = "-"
        body == IF neg THEN Tail(s) ELSE s
        ok == body # <<>> /\ \A i \in 1..Len(body) : IsDigit(body[i])
    IN  [ok |-> ok,
         val |-> IF ok THEN (IF neg THEN -DigitsValue(body) ELSE DigitsValue(body))
                 ELSE 0]

\* int(a / b) for b > 0: the quotient cut towards zero
TruncDiv(a, b) == IF a >= 0 THEN a \div b ELSE -((-a) \div b)

\* validateXInput / validateYInput on text x: the new cursor coordinate, given
\* the current one and the image's width or height.
validateInput(x, cursor, size) ==
    IF int(x).ok THEN Clamp(int(x).val, size) ELSE cursor

InputKind(x, size) ==
    IF ~int(x).ok THEN "invalid"
    ELSE IF int(x).val \in 0..(size - 1) THEN "inside" ELSE "outside"

\* onXIncrement / onXDecrement: validateXInput(str(self.cursorX +- 1))
Explore_onXStep ==
    /\ xPc = "gui"
    /\ \E d \in {-1, 1} :
          /\ cursorX' = validateInput(str(cursorX + d), cursorX, ImageWidth)
          /\ xLastInput' = InputKind(str(cursorX + d), ImageWidth)
    /\ UNCHANGED <<xPc, xToMain, xToChild, xMainPc, xNotified, xReply, cursorY, xZoom>>
    /\ UNCHANGED notExplore

\* onYIncrement / onYDecrement: validateYInput(str(self.cursorY +- 1))
Explore_onYStep ==
    /\ xPc = "gui"
    /\ \E d \in {-1, 1} :
          /\ cursorY' = validateInput(str(cursorY + d), cursorY, ImageHeight)
          /\ xLastInput' = InputKind(str(cursorY + d), ImageHeight)
    /\ UNCHANGED <<xPc, xToMain, xToChild, xMainPc, xNotified, xReply, cursorX, xZoom>>
    /\ UNCHANGED notExplore

\* onImageClicked, for a click or a drag at canvas coordinates (cx, cy):
\* validateXInput(str(int(cx / zoom))); validateYInput(str(int(cy / zoom)))
Explore_onImageClicked ==
    /\ xPc = "gui"
    /\ \E cx \in ClickCoords, cy \in ClickCoords :
          LET newX == str(TruncDiv(cx * 100, xZoom))
              newY == str(TruncDiv(cy * 100, xZoom))
          IN  /\ cursorX' = validateInput(newX, cursorX, ImageWidth)
              /\ cursorY' = validateInput(newY, cursorY, ImageHeight)
              /\ xLastInput' = IF "outside" \in {InputKind(newX, ImageWidth),
                                                 InputKind(newY, ImageHeight)}
                               THEN "outside" ELSE "inside"
    /\ UNCHANGED <<xPc, xToMain, xToChild, xMainPc, xNotified, xReply, xZoom>>
    /\ UNCHANGED notExplore

\* A text typed into the x field and applied (<Return> or focus change):
\* validateXInput
Explore_validateXInput ==
    /\ xPc = "gui"
    /\ \E x \in TypedEntries :
          /\ cursorX' = validateInput(x, cursorX, ImageWidth)
          /\ xLastInput' = InputKind(x, ImageWidth)
    /\ UNCHANGED <<xPc, xToMain, xToChild, xMainPc, xNotified, xReply, cursorY, xZoom>>
    /\ UNCHANGED notExplore

\* A text typed into the y field and applied: validateYInput
Explore_validateYInput ==
    /\ xPc = "gui"
    /\ \E y \in TypedEntries :
          /\ cursorY' = validateInput(y, cursorY, ImageHeight)
          /\ xLastInput' = InputKind(y, ImageHeight)
    /\ UNCHANGED <<xPc, xToMain, xToChild, xMainPc, xNotified, xReply, cursorX, xZoom>>
    /\ UNCHANGED notExplore

\* A zoom level is chosen in the menu: onZoom rescales the image and redraws
\* the cursor where it is.
Explore_onZoom ==
    /\ xPc = "gui"
    /\ \E z \in ZoomLevels \ {xZoom} : xZoom' = z
    /\ UNCHANGED <<xPc, xToMain, xToChild, xMainPc, xNotified, xReply, cursorX, cursorY,
                   xLastInput>>
    /\ UNCHANGED notExplore

\* The user closes the explorer window: mainloop returns and ExploreApp(...)
\* with it.
Explore_close ==
    /\ xPc = "gui"
    /\ xPc' = "ended"
    /\ UNCHANGED <<xToMain, xToChild, xMainPc, xNotified, xReply, cursorX, cursorY>>
    /\ UNCHANGED xView
    /\ UNCHANGED notExplore

\* del self.app
Explore_run_del ==
    /\ xPc = "ended"
    /\ xPc' = "notify"
    /\ cursorX' = 0
    /\ cursorY' = 0
    /\ UNCHANGED <<xToMain, xToChild, xMainPc, xNotified, xReply>>
    /\ UNCHANGED xView
    /\ UNCHANGED notExplore

\* self.pipe.send(ExploreApp.EXIT_CODE)
Explore_run_send ==
    /\ xPc = "notify"
    /\ xToMain' = Append(xToMain, "EXIT_CODE")
    /\ xNotified' = xNotified + 1
    /\ xPc' = "wait"
    /\ UNCHANGED <<xToChild, xMainPc, xReply, cursorX, cursorY>>
    /\ UNCHANGED xView
    /\ UNCHANGED notExplore

\* run that goes on without the reply: a recv that does not wait.
Explore_run_recv_nowait ==
    /\ xPc = "wait"
    /\ xReply' = IF xToChild # <<>> THEN Head(xToChild) ELSE "none"
    /\ xToChild' = IF xToChild # <<>> THEN Tail(xToChild) ELSE xToChild
    /\ xPc' = "leave"
    /\ UNCHANGED <<xToMain, xMainPc, xNotified, cursorX, cursorY>>
    /\ UNCHANGED xView
    /\ UNCHANGED notExplore

\* self.pipe.recv(): waits for a message from the main process
Explore_run_recv ==
    /\ xPc = "wait"
    /\ xToChild # <<>>
    /\ xReply' = Head(xToChild)
    /\ xToChild' = Tail(xToChild)
    /\ xPc' = "leave"
    /\ UNCHANGED <<xToMain, xMainPc, xNotified, cursorX, cursorY>>
    /\ UNCHANGED xView
    /\ UNCHANGED notExplore

\* exit()
Explore_run_exit ==
    /\ xPc = "leave"
    /\ xPc' = "exited"
    /\ UNCHANGED <<xToMain, xToChild, xMainPc, xNotified, xReply, cursorX, cursorY>>
    /\ UNCHANGED xView
    /\ UNCHANGED notExplore

\* The main process reads the explorer's exit code and replies with an exit
\* instruction, as the comment in run() says it should. It does so between
\* its calls, not while it is inside ExploreProcess.exit().
Explore_MainReply ==
    /\ xMainPc = "idle"
    /\ xToMain # <<>>
    /\ xToMain' = Tail(xToMain)
    /\ xToChild' = Append(xToChild, "exit instruction")
    /\ UNCHANGED <<xPc, xMainPc, xNotified, xReply, cursorX, cursorY>>
    /\ UNCHANGED xView
    /\ UNCHANGED notExplore

\* ExploreProcess.exit(), in the main process: self.terminate()
ExploreProcess_exit_terminate ==
    /\ xMainPc = "idle"
    /\ xMainPc' = "terminated"
    /\ xPc' = IF xPc = "exited" THEN xPc ELSE "killed"
    /\ UNCHANGED <<xToMain, xToChild, xNotified, xReply, cursorX, cursorY>>
    /\ UNCHANGED xView
    /\ UNCHANGED notExplore

\* ExploreProcess.exit(): self.pipe.send(ExploreApp.EXIT_CODE). self.pipe is
\* the end of the pipe that run() uses in the subprocess: what is sent on it
\* arrives at the main process's end, as the subprocess's own exit code does.
ExploreProcess_exit_send ==
    /\ xMainPc = "terminated"
    /\ xMainPc' = "sent"
    /\ xToMain' = Append(xToMain, "EXIT_CODE")
    /\ UNCHANGED <<xPc, xToChild, xNotified, xReply, cursorX, cursorY>>
    /\ UNCHANGED xView
    /\ UNCHANGED notExplore

\* ExploreProcess.exit(): self.pipe.recv(), on that same end: it waits for
\* what the main process has sent towards the subprocess.
ExploreProcess_exit_recv ==
    /\ xMainPc = "sent"
    /\ xToChild # <<>>
    /\ xToChild' = Tail(xToChild)
    /\ xMainPc' = "returned"
    /\ UNCHANGED <<xPc, xToMain, xNotified, xReply, cursorX, cursorY>>
    /\ UNCHANGED xView
    /\ UNCHANGED notExplore

Explore_Next ==
    \/ Explore_run_app
    \/ Explore_onXStep
    \/ Explore_onYStep
    \/ Explore_onImageClicked
    \/ Explore_validateXInput
    \/ Explore_validateYInput
    \/ Explore_onZoom
    \/ Explore_close
    \/ Explore_run_del
    \/ Explore_run_send
    \/ Explore_run_recv
    \/ Explore_run_exit
    \/ Explore_MainReply
    \/ ExploreProcess_exit_terminate
    \/ ExploreProcess_exit_send
    \/ ExploreProcess_exit_recv

Explore_Spec == Init /\ [][Explore_Next]_vars

Explore_RunStep ==
    \/ Explore_run_app
    \/ Explore_run_del
    \/ Explore_run_send
    \/ Explore_run_recv
    \/ Explore_run_exit

Explore_ExitStep ==
    \/ ExploreProcess_exit_send
    \/ ExploreProcess_exit_recv

\* Both processes keep running: whatever step of run() or of a started exit()
\* is possible is taken.
Explore_FairSpec ==
    /\ Init
    /\ [][Explore_Next]_vars
    /\ WF_vars(Explore_RunStep)
    /\ WF_vars(Explore_ExitStep)

\* C31: a call of ExploreProcess.exit() by the main process returns: once it
\* has terminated the subprocess it gets through its send and its recv,
\* whether or not the subprocess had begun its own exit handshake.
C31_ExploreExitReturns == (xMainPc = "terminated") ~> (xMainPc = "returned")

\* C32: after any sequence of clicks and drags, increments and decrements and
\* typed coordinates, at any zoom level, the explorer's cursor is a pixel of
\* the image: 0 <= cursorX <= width - 1 and 0 <= cursorY <= height - 1.
C32_CursorInsideImage ==
    /\ cursorX \in 0..(ImageWidth - 1)
    /\ cursorY \in 0..(ImageHeight - 1)

\* At the largest zoom an input that pointed outside the image has left the
\* cursor on the image's last column and first row.
C32_Witness ==
    /\ xPc = "gui"
    /\ xZoom = 500
    /\ xLastInput = "outside"
    /\ cursorX = ImageWidth - 1
    /\ cursorY = 0

====
